---------------------------- MODULE Spec2Model ----------------------------
(***************************************************************************)
(* The ANNO scraping pipeline: the partitioned workers with their durable  *)
(* progress checkpoints (03anno_worker_module.py), the orchestrator that   *)
(* spawns them (04run_anno_workers.py) and the merge of the worker output  *)
(* files (05merging_tool_worker_output.py).                                *)
(*                                                                         *)
(* A worker is a process with a program position and the locals of         *)
(* run_worker / scrape_issue.  The two files it owns live in the file      *)
(* system fs, under the names the code computes from the worker id.  A     *)
(* process may be killed between any two statements that touch a file;     *)
(* what it held in memory is then lost and the files stay as they were.    *)
(***************************************************************************)
EXTENDS Integers, Sequences, FiniteSets, TLC

VARIABLES
    issues,     \* rows of CSV_ISSUES (metadata_selected_np.csv), in file order
    wk,         \* per worker: position and locals of run_worker / scrape_issue
    fs,         \* file system: file name -> content
    hist,       \* per worker: what the current run has observed (history)
    writers,    \* file name -> the workers that have written it (history)
    persisted,  \* per worker: the mapping its last completed save_progress wrote (history)
    crashes,    \* number of process kills so far
    archive,    \* number of pages the archive holds of an issue
    torn,       \* the workers killed between their to_csv and the end of save_progress (history)
    ft,         \* one call of scrape_page: the answer of the archive and the result
    part,       \* the partitions the workers of one run compute
    orch,       \* run_all_workers: its position, loop indices and processes list
    mg          \* the merge step: its position, the worker files and the master file

workerVars == <<issues, wk, fs, hist, writers, persisted, crashes, archive, torn>>

vars == <<issues, wk, fs, hist, writers, persisted, crashes, archive, torn, part, orch, mg, ft>>

---------------------------------------------------------------------------
(* Bounds of the model *)

\* number of worker processes of one run (the total_workers argument)
NumWorkers == 2
\* longest issue list
MaxIssues == 3
\* the archive holds at most this many pages of an issue
PageLimit == 2
\* process kills in one behaviour
MaxCrashes == 1

\* largest worker count and longest issue list a partition is computed for
MaxTotal == 4
MaxRows == 5
\* worker output files given to the merge and the rows they hold together
MergeFiles == 2
MaxMergeRows == 3

(* Program constants *)

\* the page loop one page longer: range(1, max_pages + 2)
MaxPagesOffByOne == 100 + 1

\* scrape_issue(..., max_pages=100)
max_pages == 100

Workers == 1..NumWorkers

---------------------------------------------------------------------------
(* The issue list *)

\* Issue references (aid, title, date) the list is drawn from.  date is the
\* integer pandas reads from the YYYYMMDD column.
IssueRefs ==
    { [aid |-> "nfp", title |-> "Neue Freie Presse", date |-> 18710102],
      [aid |-> "awi", title |-> "Arbeiter-Zeitung", date |-> 18950101] }

RECURSIVE SeqsUpTo(_, _)
SeqsUpTo(S, n) ==
    IF n = 0 THEN { <<>> }
    ELSE LET shorter == SeqsUpTo(S, n - 1)
         IN  shorter \cup { Append(s, x) : s \in shorter, x \in S }

IssueLists == SeqsUpTo(IssueRefs, MaxIssues)

\* key = aid + "_" + date  (aid has no "_" and date is 8 digits: injective)
IssueKey(aid, date) == <<aid, date>>

\* str(page_index): the page numbers of the progress record are strings
Str(n) == <<"str", n>>

\* datetime.strptime(str(date_str), "%Y%m%d") and its year, month, day
ParseDate(date) ==
    [year |-> date \div 10000, month |-> (date \div 100) % 100, day |-> date % 100]

---------------------------------------------------------------------------
(* Dictionaries (the progress record) *)

EmptyDict == <<>>

\* progress.get(key, [])
DictGet(d, k) == IF k \in DOMAIN d THEN d[k] ELSE <<>>

\* the page list replaced by the new page: progress[key] = [v]
DictAppendOverwrite(d, k, v) ==
    [x \in (DOMAIN d) \cup {k} |-> IF x = k THEN <<v>> ELSE d[x]]

\* progress.setdefault(key, []).append(v)
DictAppend(d, k, v) ==
    [x \in (DOMAIN d) \cup {k} |-> IF x = k THEN Append(DictGet(d, k), v) ELSE d[x]]

SeqToSet(s) == { s[i] : i \in 1..Len(s) }

---------------------------------------------------------------------------
(* Files *)

\* the file name without the worker id in it
get_issue_progress_file_shared(worker_id) == <<"progress_worker", 0>>

\* BACKUP_DIR / f"progress_worker_{worker_id}.json"
get_issue_progress_file(worker_id) == <<"progress_worker", worker_id>>

\* BACKUP_DIR / f"output_worker_{worker_id}.csv"
output_file(worker_id) == <<"output_worker", worker_id>>

FileNames ==
    { get_issue_progress_file(w) : w \in Workers } \cup { output_file(w) : w \in Workers }

\* A missing file.  valid is FALSE for a checkpoint that open(.., "w") has
\* truncated and json.dump has not yet rewritten: json.load fails on it.
NoFile == [exists |-> FALSE, valid |-> TRUE, data |-> <<>>]


OutputRows(w) == fs[output_file(w)].data

---------------------------------------------------------------------------
(* The Fetcher: scrape_page *)

None == "<None>"
NoExc == "<no exception>"

\* r.text is a bracketed prefix followed by the rest.  prefix: "placeholder"
\* is "[ YYYY-MM-DD - YYYYMMDD - Seite N ]", "other" any other text ending
\* with the first "]", "none" a body without "]".
Prefixes == { "placeholder", "other", "none" }
Rests == { "", " ", "Hello world", " Hello world " }
StatusCodes == { 200, 403, 404, 500, 503 }

\* what session.get delivers: a response, or an exception (timeout, ...)
Responses ==
    [raises : {FALSE}, status : StatusCodes, prefix : Prefixes, rest : Rests]
    \cup { [raises |-> TRUE, status |-> 0, prefix |-> "none", rest |-> ""] }

\* str.strip()
Strip(t) == CASE t = " " -> ""
              [] t = " Hello world " -> "Hello world"
              [] OTHER -> t

\* re.fullmatch(r"\[\s*\d{4}-\d{2}-\d{2}\s*-\s*\d{8}\s*-\s*Seite\s+\d+\s*\]", r.text.strip())
IsPlaceholder(r) == r.prefix = "placeholder" /\ Strip(r.rest) = ""

\* re.sub(r"^.*?\]\s*", "", r.text, flags=re.DOTALL).strip()
Content(r) == Strip(r.rest)

\* r.raise_for_status() raises HTTPError for 4xx and 5xx
RaisesForStatus(status) == status >= 400 /\ status < 600

\* The statements inside the try block; raised names the exception that
\* leaves the block, if any.
TryBlock(r) ==
    IF r.raises THEN [text |-> None, err |-> None, raised |-> "RequestException"]
    ELSE IF r.status = 403 THEN [text |-> None, err |-> None, raised |-> "PermissionError"]
    ELSE IF r.status = 500 THEN [text |-> None, err |-> "server_error_500", raised |-> NoExc]
    ELSE IF RaisesForStatus(r.status) THEN [text |-> None, err |-> None, raised |-> "HTTPError"]
    ELSE IF IsPlaceholder(r) THEN [text |-> None, err |-> "invalid_index", raised |-> NoExc]
    ELSE IF Content(r) # "" THEN [text |-> Content(r), err |-> None, raised |-> NoExc]
    ELSE [text |-> None, err |-> "no_content", raised |-> NoExc]

\* a handler that catches nothing
CaughtNothing(e) == FALSE

\* "except Exception": PermissionError (an OSError), requests' HTTPError and
\* RequestException (IOError) are all subclasses of Exception.
CaughtByExceptException(e) == e \in { "PermissionError", "HTTPError", "RequestException" }

scrape_page(r) ==
    LET b == TryBlock(r)
    IN  IF b.raised # NoExc /\ CaughtByExceptException(b.raised)
        THEN [text |-> None, err |-> "error", raised |-> NoExc]
        ELSE b

\* What the archive can answer for a page: it holds archive pages of an
\* issue; beyond them a 200 answer carries no page text.
ArchiveResponses(page) ==
    { r \in Responses :
        (page > archive /\ ~r.raises /\ r.status = 200) => Strip(r.rest) = "" }

\* the test "if text != ''", which None passes
TruthyNone(text) == text # ""

\* "if text:"
Truthy(text) == text # None /\ text # ""

---------------------------------------------------------------------------
(* The worker: run_worker and scrape_issue *)

\* the rule with the offset forgotten
PartitionOneBased(worker_id, total_workers, n) ==
    { i \in 0..(n - 1) : i % total_workers = worker_id }

\* the comparison "<=" in place of "=="
PartitionOverlap(worker_id, total_workers, n) ==
    { i \in 0..(n - 1) : i % total_workers <= worker_id - 1 }

\* df[df.index % total_workers == (worker_id - 1)], as the set of row indices
\* (pandas numbers the rows from 0)
Partition(worker_id, total_workers, n) ==
    { i \in 0..(n - 1) : i % total_workers = worker_id - 1 }

RECURSIVE SortedSeq(_)
SortedSeq(S) ==
    IF S = {} THEN <<>>
    ELSE LET m == CHOOSE x \in S : \A y \in S : x <= y
         IN  <<m>> \o SortedSeq(S \ {m})

\* a start that ignores the checkpoint file
load_progress_empty(worker_id) == [loaded |-> TRUE, progress |-> EmptyDict]

\* load_progress: "loaded" is FALSE when json.load raises on the file
load_progress(worker_id) ==
    LET f == fs[get_issue_progress_file(worker_id)]
    IN  IF ~f.exists THEN [loaded |-> TRUE, progress |-> EmptyDict]
        ELSE IF f.valid THEN [loaded |-> TRUE, progress |-> f.data]
        ELSE [loaded |-> FALSE, progress |-> EmptyDict]

\* A process that is not running holds nothing.
Fresh(pc) ==
    [pc |-> pc, df |-> <<>>, pos |-> 0, aid |-> "", title |-> "", date |-> 0,
     page_index |-> 0, progress |-> EmptyDict, already_done_pages |-> <<>>,
     results |-> <<>>, text |-> None]

\* History of the current run of scrape_issue: the page requests made (reqs;
\* ok: scrape_page returned a text and no error), the issue's page list
\* (entry) and the number of output rows (rows) at its entry, and whether the
\* last answer was a 403 (forbidden).
NoHist == [forbidden |-> FALSE, reqs |-> <<>>, entry |-> <<>>, rows |-> 0]

\* A process can be started when it has never run or after a run that was
\* cut short.  (A rerun after a normal end behaves as a kill at the end of
\* the issue loop followed by a restart.)
Startable == { "idle", "crashed", "failed" }

Key(w) == IssueKey(wk[w].aid, wk[w].date)

\* The record scrape_issue builds for a page with text
Record(w) ==
    LET d == ParseDate(wk[w].date)
    IN  [title |-> wk[w].title, aid |-> wk[w].aid, year |-> d.year, month |-> d.month,
         day |-> d.day, page |-> wk[w].page_index, text |-> wk[w].text]

\* the checkpoint written before the row
ContentStepsSaveFirst == <<"open", "dump", "append">>

\* The order of the statements of scrape_issue that handle a page with text:
\* "append" is to_csv, "open" is progress.setdefault(..).append(..) and the
\* open(progress_file, "w") of save_progress, "dump" its json.dump and close.
ContentSteps == <<"append", "open", "dump">>

StepIndex(s) == CHOOSE i \in 1..Len(ContentSteps) : ContentSteps[i] = s

\* the page loop advancing by two after a page with text
AfterStepSkip(rec, s) ==
    IF StepIndex(s) < Len(ContentSteps)
    THEN [rec EXCEPT !.pc = ContentSteps[StepIndex(s) + 1]]
    ELSE [rec EXCEPT !.pc = "page",
                     !.results = Append(@, rec.page_index),
                     !.page_index = @ + 2,
                     !.text = None]

\* The worker's locals after statement s of ContentSteps: the next statement,
\* or results.append(record) and the next round of the page loop.
AfterStep(rec, s) ==
    IF StepIndex(s) < Len(ContentSteps)
    THEN [rec EXCEPT !.pc = ContentSteps[StepIndex(s) + 1]]
    ELSE [rec EXCEPT !.pc = "page",
                     !.results = Append(@, rec.page_index),
                     !.page_index = @ + 1,
                     !.text = None]

\* run_worker up to its issue loop: read the issue list, keep the partition,
\* load the checkpoint.  Also the restart of a worker that has exited.
WorkerStart(w) ==
    /\ wk[w].pc \in Startable
    /\ LET lp == load_progress(w)
           df == SortedSeq(Partition(w, NumWorkers, Len(issues)))
       IN  wk' = [wk EXCEPT ![w] =
                    IF lp.loaded
                    THEN [Fresh("loop") EXCEPT !.df = df, !.pos = 1, !.progress = lp.progress]
                    ELSE Fresh("failed")]
    /\ hist' = [hist EXCEPT ![w] = NoHist]
    /\ UNCHANGED <<issues, archive, fs, writers, persisted, crashes, torn>>

\* "for idx, row in df.iterrows()": the next issue of the partition and the
\* entry of scrape_issue, or the end of run_worker.
NextIssue(w) ==
    /\ wk[w].pc = "loop"
    /\ IF wk[w].pos > Len(wk[w].df)
       THEN /\ wk' = [wk EXCEPT ![w] = Fresh("finished")]
            /\ UNCHANGED hist
       ELSE LET row == issues[wk[w].df[wk[w].pos] + 1]
                done == DictGet(wk[w].progress, IssueKey(row.aid, row.date))
            IN  /\ wk' = [wk EXCEPT ![w].pc = "page",
                                    ![w].aid = row.aid,
                                    ![w].title = row.title,
                                    ![w].date = row.date,
                                    ![w].page_index = 1,
                                    ![w].already_done_pages = done,
                                    ![w].results = <<>>]
                /\ hist' = [hist EXCEPT ![w] = [NoHist EXCEPT !.entry = done,
                                                           !.rows = Len(OutputRows(w))]]
    /\ UNCHANGED <<issues, archive, fs, writers, persisted, crashes, torn>>

\* the test with page_index, an int, which is never in a list of strings
AlreadyDoneNever(w) == FALSE

\* "if str(page_index) in already_done_pages"
AlreadyDone(w) == Str(wk[w].page_index) \in SeqToSet(wk[w].already_done_pages)

\* "for page_index in range(1, max_pages + 1)" and the skip of a page that is
\* already in the progress record
LoopHead(w) ==
    /\ wk[w].pc = "page"
    /\ wk' = [wk EXCEPT ![w] =
                IF wk[w].page_index > max_pages THEN [@ EXCEPT !.pc = "ret"]
                ELSE IF AlreadyDone(w)
                THEN [@ EXCEPT !.page_index = @ + 1]
                ELSE [@ EXCEPT !.pc = "fetch"]]
    /\ UNCHANGED <<issues, archive, fs, hist, writers, persisted, crashes, torn>>

\* What one call of scrape_page can give at this page: its result and
\* whether the answer was a 403
FetchOutcomes(page) ==
    { [res |-> scrape_page(r), forbidden |-> (~r.raises /\ r.status = 403)] :
        r \in ArchiveResponses(page) }

\* scrape_page and what scrape_issue and run_worker do with its result: an
\* exception that leaves scrape_page ends the issue loop when it is a
\* PermissionError and the process when it is any other
Fetch(w) ==
    /\ wk[w].pc = "fetch"
    /\ \E o \in FetchOutcomes(wk[w].page_index) :
         LET res == o.res
         IN  /\ wk' = [wk EXCEPT ![w] =
                         IF res.raised = "PermissionError" THEN Fresh("stopped")
                         ELSE IF res.raised # NoExc THEN Fresh("failed")
                         ELSE IF res.err \in {"server_error_500", "no_content", "invalid_index"}
                         THEN [@ EXCEPT !.pc = "ret"]
                         ELSE IF Truthy(res.text)
                         THEN [@ EXCEPT !.pc = ContentSteps[1], !.text = res.text]
                         ELSE [@ EXCEPT !.pc = "ret"]]
             /\ hist' = [hist EXCEPT
                           ![w].forbidden = @ \/ o.forbidden,
                           ![w].reqs = Append(@, [page |-> wk[w].page_index,
                                                  ok |-> (res.err = None /\ res.raised = NoExc)])]
    /\ UNCHANGED <<issues, archive, fs, writers, persisted, crashes, torn>>

\* pd.DataFrame([record]).to_csv(output_file, mode="a", ...)
AppendRow(w) ==
    /\ wk[w].pc = "append"
    /\ fs' = [fs EXCEPT ![output_file(w)] =
                [exists |-> TRUE, valid |-> TRUE, data |-> Append(@.data, Record(w))]]
    /\ writers' = [writers EXCEPT ![output_file(w)] = @ \cup {w}]
    /\ wk' = [wk EXCEPT ![w] = AfterStep(@, "append")]
    /\ UNCHANGED <<issues, archive, hist, persisted, crashes, torn>>

\* progress.setdefault(key, []).append(str(page_index)), then save_progress
\* up to its open(progress_file, "w"), which empties the file
SaveOpen(w) ==
    /\ wk[w].pc = "open"
    /\ LET p == DictAppend(wk[w].progress, Key(w), Str(wk[w].page_index))
           aliased == Key(w) \in DOMAIN wk[w].progress
       IN  wk' = [wk EXCEPT ![w] =
                    AfterStep([@ EXCEPT !.progress = p,
                                        !.already_done_pages =
                                            IF aliased THEN p[Key(w)] ELSE @],
                              "open")]
    /\ fs' = [fs EXCEPT ![get_issue_progress_file(w)] =
                [exists |-> TRUE, valid |-> FALSE, data |-> <<>>]]
    /\ writers' = [writers EXCEPT ![get_issue_progress_file(w)] = @ \cup {w}]
    /\ UNCHANGED <<issues, archive, hist, persisted, crashes, torn>>

\* json.dump(progress, f) and the close of the file
SaveDump(w) ==
    /\ wk[w].pc = "dump"
    /\ fs' = [fs EXCEPT ![get_issue_progress_file(w)] =
                [exists |-> TRUE, valid |-> TRUE, data |-> wk[w].progress]]
    /\ writers' = [writers EXCEPT ![get_issue_progress_file(w)] = @ \cup {w}]
    /\ wk' = [wk EXCEPT ![w] = AfterStep(@, "dump")]
    /\ persisted' = [persisted EXCEPT ![w] = wk[w].progress]
    /\ UNCHANGED <<issues, archive, hist, crashes, torn>>

\* scrape_issue returns; run_worker goes on with the next row
Return(w) ==
    /\ wk[w].pc = "ret"
    /\ wk' = [wk EXCEPT ![w].pc = "loop", ![w].pos = @ + 1]
    /\ hist' = [hist EXCEPT ![w] = NoHist]
    /\ UNCHANGED <<issues, archive, fs, writers, persisted, crashes, torn>>

Running == { "loop", "page", "fetch", "ret" } \cup SeqToSet(ContentSteps)

\* The process is killed: its memory is gone, the files stay.
Crash(w) ==
    /\ wk[w].pc \in Running
    /\ crashes < MaxCrashes
    /\ crashes' = crashes + 1
    /\ wk' = [wk EXCEPT ![w] = Fresh("crashed")]
    /\ hist' = [hist EXCEPT ![w] = NoHist]
    /\ torn' = IF wk[w].pc \in SeqToSet(Tail(ContentSteps)) THEN torn \cup {w} ELSE torn
    /\ UNCHANGED <<issues, archive, fs, writers, persisted>>

NoFetch == [pc |-> "idle", resp |-> <<>>, result |-> <<>>]
NoPart == [total |-> 0, rows |-> 0, df |-> <<>>]
NoOrch == [pc |-> "idle", i |-> 0, j |-> 0, processes |-> <<>>]
NoMerge == [pc |-> "idle", files |-> <<>>, master |-> <<>>]

Init ==
    /\ part = NoPart
    /\ orch = NoOrch
    /\ mg = NoMerge
    /\ issues \in IssueLists
    /\ wk = [w \in Workers |-> Fresh("idle")]
    /\ fs = [f \in FileNames |-> NoFile]
    /\ hist = [w \in Workers |-> NoHist]
    /\ writers = [f \in FileNames |-> {}]
    /\ persisted = [w \in Workers |-> EmptyDict]
    /\ crashes = 0
    /\ archive = PageLimit
    /\ torn = {}
    /\ ft = NoFetch

Next ==
    /\ \E w \in Workers :
          \/ WorkerStart(w)
          \/ NextIssue(w)
          \/ LoopHead(w)
          \/ Fetch(w)
          \/ AppendRow(w)
          \/ SaveOpen(w)
          \/ SaveDump(w)
          \/ Return(w)
          \/ Crash(w)
    /\ UNCHANGED <<part, orch, mg, ft>>

Spec == Init /\ [][Next]_vars

\* The statements of a running worker.  A process that is not killed executes
\* its next statement, and every request returns (timeout=30).
WorkerStep(w) ==
    /\ \/ NextIssue(w)
       \/ LoopHead(w)
       \/ Fetch(w)
       \/ AppendRow(w)
       \/ SaveOpen(w)
       \/ SaveDump(w)
       \/ Return(w)
    /\ UNCHANGED <<part, orch, mg, ft>>

\* The run of the workers when no process is killed
NextRun ==
    \E w \in Workers :
        \/ WorkerStart(w) /\ UNCHANGED <<part, orch, mg, ft>>
        \/ WorkerStep(w)

SpecRun == Init /\ [][NextRun]_vars /\ \A w \in Workers : WF_vars(WorkerStep(w))

---------------------------------------------------------------------------
(* The partition of the issue list, for any worker count *)

\* Worker w of part.total workers reads the list of part.rows rows and keeps
\* its partition (run_worker's first three statements).
ComputePartition(w) ==
    /\ w \in 1..part.total
    /\ w \notin DOMAIN part.df
    /\ part' = [part EXCEPT !.df =
                  [x \in (DOMAIN part.df) \cup {w} |->
                      IF x = w THEN Partition(w, part.total, part.rows) ELSE part.df[x]]]
    /\ UNCHANGED <<workerVars, ft, orch, mg>>

InitPartition ==
    /\ part \in { [total |-> n, rows |-> l, df |-> <<>>] : n \in 1..MaxTotal, l \in 0..MaxRows }
    /\ orch = NoOrch
    /\ mg = NoMerge
    /\ issues = <<>>
    /\ wk = [w \in Workers |-> Fresh("idle")]
    /\ fs = [f \in FileNames |-> NoFile]
    /\ hist = [w \in Workers |-> NoHist]
    /\ writers = [f \in FileNames |-> {}]
    /\ persisted = [w \in Workers |-> EmptyDict]
    /\ crashes = 0
    /\ archive = PageLimit
    /\ torn = {}
    /\ ft = NoFetch

NextPartition == \E w \in 1..MaxTotal : ComputePartition(w)

SpecPartition == InitPartition /\ [][NextPartition]_vars

---------------------------------------------------------------------------
(* The orchestrator: run_all_workers *)

\* the stop of "for i in range(1, 12)", one short
RangeStopShort == 13 - 1

\* "for i in range(1, 13)"
RangeStop == 13

\* the total_workers of "args=(i, 12)"
TotalWorkersArg == 12

\* p = Process(target=run_worker, args=(i, 12)); p.start(); processes.append(p)
\* for each i of the range, then on to the joins
Spawn ==
    /\ orch.pc = "spawn"
    /\ orch' = IF orch.i < RangeStop
               THEN [orch EXCEPT !.processes =
                                    Append(@, [worker_id |-> orch.i,
                                               total_workers |-> TotalWorkersArg,
                                               state |-> "running"]),
                                 !.i = @ + 1]
               ELSE [orch EXCEPT !.pc = "join", !.j = 1]
    /\ UNCHANGED <<workerVars, ft, part, mg>>

\* A started process ends: run_worker has returned, or the process has died.
ProcessExit(k) ==
    /\ k \in 1..Len(orch.processes)
    /\ orch.processes[k].state = "running"
    /\ orch' = [orch EXCEPT !.processes[k].state = "exited"]
    /\ UNCHANGED <<workerVars, ft, part, mg>>

\* "for p in processes: p.join()": join blocks until the process has ended
Join ==
    /\ orch.pc = "join"
    /\ IF orch.j > Len(orch.processes)
       THEN orch' = [orch EXCEPT !.pc = "returned"]
       ELSE /\ orch.processes[orch.j].state = "exited"
            /\ orch' = [orch EXCEPT !.j = @ + 1]
    /\ UNCHANGED <<workerVars, ft, part, mg>>

InitOrchestrator ==
    /\ orch = [pc |-> "spawn", i |-> 1, j |-> 0, processes |-> <<>>]
    /\ part = NoPart
    /\ mg = NoMerge
    /\ issues = <<>>
    /\ wk = [w \in Workers |-> Fresh("idle")]
    /\ fs = [f \in FileNames |-> NoFile]
    /\ hist = [w \in Workers |-> NoHist]
    /\ writers = [f \in FileNames |-> {}]
    /\ persisted = [w \in Workers |-> EmptyDict]
    /\ crashes = 0
    /\ archive = PageLimit
    /\ torn = {}
    /\ ft = NoFetch

NextOrchestrator ==
    \/ Spawn
    \/ Join
    \/ \E k \in 1..(RangeStop - 1) : ProcessExit(k)

SpecOrchestrator == InitOrchestrator /\ [][NextOrchestrator]_vars

---------------------------------------------------------------------------
(* The merge step: main of 05merging_tool_worker_output.py *)

\* the issues the rows of the worker files are of
MergeRefs ==
    IssueRefs \cup { [aid |-> "nfp", title |-> "Neue Freie Presse", date |-> 18701231] }

\* the rows a worker file can hold, as scrape_issue writes them
MergeRows ==
    { [title |-> r.title, aid |-> r.aid, year |-> ParseDate(r.date).year,
       month |-> ParseDate(r.date).month, day |-> ParseDate(r.date).day,
       page |-> p, text |-> "Hello world"] : r \in MergeRefs, p \in 1..PageLimit }

\* the aids in the order of Python's string comparison
AidOrder == <<"awi", "nfp">>
AidRank(aid) == CHOOSE i \in 1..Len(AidOrder) : AidOrder[i] = aid

\* the sort key without the page
SortKeyNoPage(row) == <<AidRank(row.aid), row.year, row.month, row.day, 0>>

\* the columns of merged.sort_values(["aid", "year", "month", "day", "page"])
SortKey(row) == <<AidRank(row.aid), row.year, row.month, row.day, row.page>>

RECURSIVE KeyLess(_, _)
KeyLess(a, b) ==
    IF a = <<>> THEN FALSE
    ELSE Head(a) < Head(b) \/ (Head(a) = Head(b) /\ KeyLess(Tail(a), Tail(b)))

\* row put into a sorted sequence, after the rows that are not greater
Insert(sorted, row) ==
    LET n == Cardinality({ i \in 1..Len(sorted) : ~KeyLess(SortKey(row), SortKey(sorted[i])) })
    IN  SubSeq(sorted, 1, n) \o <<row>> \o SubSeq(sorted, n + 1, Len(sorted))

RECURSIVE sort_values(_)
sort_values(rows) ==
    IF rows = <<>> THEN <<>>
    ELSE Insert(sort_values(SubSeq(rows, 1, Len(rows) - 1)), rows[Len(rows)])

\* pd.concat(dfs, ignore_index=True)
RECURSIVE concat(_)
concat(dfs) == IF dfs = <<>> THEN <<>> ELSE Head(dfs) \o concat(Tail(dfs))

MergeTotalRows == Len(concat(mg.files))

\* A worker appends a row to its output file before the merge is run.
MergeInput(f, row) ==
    /\ mg.pc = "input"
    /\ MergeTotalRows < MaxMergeRows
    /\ mg' = [mg EXCEPT !.files[f] = Append(@, row)]
    /\ UNCHANGED <<workerVars, ft, part, orch>>

\* sorted(INPUT_DIR.glob("output_worker_*.csv")): the files that exist, a
\* worker's file existing once it holds a row
worker_files == SelectSeq(mg.files, LAMBDA f : f # <<>>)

\* main: read the worker files, concatenate, sort, write the master file
MergeMain ==
    /\ mg.pc = "input"
    /\ mg' = IF worker_files = <<>>
             THEN [mg EXCEPT !.pc = "FileNotFoundError"]
             ELSE [mg EXCEPT !.pc = "done", !.master = sort_values(concat(worker_files))]
    /\ UNCHANGED <<workerVars, ft, part, orch>>

InitMerge ==
    /\ mg = [pc |-> "input", files |-> [f \in 1..MergeFiles |-> <<>>], master |-> <<>>]
    /\ part = NoPart
    /\ orch = NoOrch
    /\ issues = <<>>
    /\ wk = [w \in Workers |-> Fresh("idle")]
    /\ fs = [f \in FileNames |-> NoFile]
    /\ hist = [w \in Workers |-> NoHist]
    /\ writers = [f \in FileNames |-> {}]
    /\ persisted = [w \in Workers |-> EmptyDict]
    /\ crashes = 0
    /\ archive = PageLimit
    /\ torn = {}
    /\ ft = NoFetch

NextMerge ==
    \/ \E f \in 1..MergeFiles, row \in MergeRows : MergeInput(f, row)
    \/ MergeMain

SpecMerge == InitMerge /\ [][NextMerge]_vars

---------------------------------------------------------------------------
(* One call of the Fetcher, for every answer of the archive *)

\* scrape_page(aid, date_str, page_index) is called and returns (or lets an
\* exception through) for the answer ft.resp of session.get
ScrapePage ==
    /\ ft.pc = "called"
    /\ ft' = [ft EXCEPT !.pc = "done", !.result = scrape_page(ft.resp)]
    /\ UNCHANGED <<workerVars, part, orch, mg>>

InitFetcher ==
    /\ ft \in [pc : {"called"}, resp : Responses, result : {<<>>}]
    /\ part = NoPart
    /\ orch = NoOrch
    /\ mg = NoMerge
    /\ issues = <<>>
    /\ wk = [w \in Workers |-> Fresh("idle")]
    /\ fs = [f \in FileNames |-> NoFile]
    /\ hist = [w \in Workers |-> NoHist]
    /\ writers = [f \in FileNames |-> {}]
    /\ persisted = [w \in Workers |-> EmptyDict]
    /\ crashes = 0
    /\ archive = PageLimit
    /\ torn = {}

NextFetcher == ScrapePage

SpecFetcher == InitFetcher /\ [][NextFetcher]_vars

---------------------------------------------------------------------------
(* Issues as long as the page cap *)

\* One issue in the list, of an archive that holds one page less or one page
\* more than scrape_issue's max_pages; no process is killed.
InitCap ==
    /\ issues \in { <<r>> : r \in IssueRefs }
    /\ archive \in { max_pages - 1, max_pages + 1 }
    /\ part = NoPart
    /\ orch = NoOrch
    /\ mg = NoMerge
    /\ wk = [w \in Workers |-> Fresh("idle")]
    /\ fs = [f \in FileNames |-> NoFile]
    /\ hist = [w \in Workers |-> NoHist]
    /\ writers = [f \in FileNames |-> {}]
    /\ persisted = [w \in Workers |-> EmptyDict]
    /\ crashes = 0
    /\ torn = {}
    /\ ft = NoFetch

SpecCap == InitCap /\ [][NextRun]_vars /\ \A w \in Workers : WF_vars(WorkerStep(w))

\* run_all_workers when every started process ends and the parent executes
\* its next statement
SpecOrchestratorFair ==
    /\ SpecOrchestrator
    /\ WF_vars(Spawn)
    /\ WF_vars(Join)
    /\ \A k \in 1..(RangeStop - 1) : WF_vars(ProcessExit(k))

---------------------------------------------------------------------------
(* Progress record and output file of one worker *)

\* the date of an output row, as in the issue list
RowDate(row) == row.year * 10000 + row.month * 100 + row.day

\* how many rows of worker w's output file are for page number pg (a string
\* of the progress record) of the issue key
RowCount(w, key, pg) ==
    Cardinality({ i \in 1..Len(OutputRows(w)) :
                    /\ IssueKey(OutputRows(w)[i].aid, RowDate(OutputRows(w)[i])) = key
                    /\ Str(OutputRows(w)[i].page) = pg })

\* the (issue-key, page) pairs of a progress mapping
ProgressPairs(d) == UNION { { <<k, d[k][i]>> : i \in 1..Len(d[k]) } : k \in DOMAIN d }

\* the (issue-key, page) pairs of the rows of worker w's output file
OutputPairs(w) ==
    { <<IssueKey(OutputRows(w)[i].aid, RowDate(OutputRows(w)[i])), Str(OutputRows(w)[i].page)>> :
        i \in 1..Len(OutputRows(w)) }

Checkpoint(w) == fs[get_issue_progress_file(w)]

---------------------------------------------------------------------------
(* C1 *)

\* C1: in every reachable state of a worker, crashes and restarts included,
\* every page number in the progress record (in memory or in the checkpoint
\* file) has exactly one row in that worker's output file.
C1_ExactlyOneRow ==
    \A w \in Workers :
        \A pr \in ProgressPairs(wk[w].progress) \cup ProgressPairs(Checkpoint(w).data) :
            RowCount(w, pr[1], pr[2]) = 1

(* C2 *)

\* C2: append-before-checkpoint: whatever the point of a crash, no page number
\* is in the checkpoint file without at least one row for it in the output
\* file of that worker.
C2_NoCheckpointWithoutRow ==
    \A w \in Workers :
        \A pr \in ProgressPairs(Checkpoint(w).data) : RowCount(w, pr[1], pr[2]) >= 1

\* a worker was killed after it had checkpointed a page
C2_Witness ==
    \E w \in Workers : wk[w].pc = "crashed" /\ ProgressPairs(Checkpoint(w).data) # {}

(* C3 *)

\* C3: a 403 answer ends the worker's issue loop: the worker that received it
\* is stopped and requests no further page.
C3_StopOn403 ==
    \A w \in Workers : hist[w].forbidden => wk[w].pc = "stopped"

(* C4 *)

\* the issue's page list at the entry of scrape_issue is "1".."k", k >= 1
CoversPrefix(w) ==
    /\ Len(hist[w].entry) >= 1
    /\ SeqToSet(hist[w].entry) = { Str(i) : i \in 1..Len(hist[w].entry) }

\* no request of this run for page k+1 gave text
NextPageTerminal(w) ==
    \A i \in 1..Len(hist[w].reqs) :
        hist[w].reqs[i].page = Len(hist[w].entry) + 1 => ~hist[w].reqs[i].ok

Resumed(w) == wk[w].pc = "ret" /\ CoversPrefix(w) /\ NextPageTerminal(w)

NothingNew(w) ==
    /\ wk[w].results = <<>>
    /\ Len(OutputRows(w)) = hist[w].rows
    /\ DictGet(wk[w].progress, Key(w)) = hist[w].entry

\* C4 as stated: a run of scrape_issue on an issue whose progress covers pages
\* 1..k and whose page k+1 is terminal makes no page request, appends no row
\* and leaves the progress record as it was.
C4_ZeroRequests ==
    \A w \in Workers : Resumed(w) => hist[w].reqs = <<>> /\ NothingNew(w)

\* C4 amended: such a run makes exactly one page request, for page k+1 (none
\* when k = max_pages), appends no row and leaves the progress record as it was.
C4_OneProbe ==
    \A w \in Workers :
        Resumed(w) =>
            /\ hist[w].reqs =
                 IF Len(hist[w].entry) >= max_pages THEN <<>>
                 ELSE << [page |-> Len(hist[w].entry) + 1, ok |-> FALSE] >>
            /\ NothingNew(w)

\* a resumed run has returned for an issue with pages 1..PageLimit recorded
C4_Witness ==
    \E w \in Workers : Resumed(w) /\ Len(hist[w].entry) = PageLimit /\ Len(hist[w].reqs) = 1

(* C6 *)

InScrapeIssue == { "page", "fetch", "ret" } \cup SeqToSet(ContentSteps)

\* the issue-keys worker w fetches pages for or has recorded
KeysTouched(w) ==
    (DOMAIN wk[w].progress) \cup (DOMAIN Checkpoint(w).data)
    \cup { pr[1] : pr \in OutputPairs(w) }
    \cup (IF wk[w].pc \in InScrapeIssue THEN { Key(w) } ELSE {})

NoSharedIssueKey ==
    \A w1, w2 \in Workers : w1 # w2 => KeysTouched(w1) \cap KeysTouched(w2) = {}

\* C6 as stated: for every issue list, no issue-key is fetched or recorded
\* by two workers.
C6_NoSharedIssueKey == NoSharedIssueKey

\* every issue-key occurs only in rows of one residue class modulo the worker count
KeysInOneClass ==
    \A i, j \in 1..Len(issues) :
        IssueKey(issues[i].aid, issues[i].date) = IssueKey(issues[j].aid, issues[j].date)
            => (i - 1) % NumWorkers = (j - 1) % NumWorkers

\* C6 amended: for every issue list in which the rows of one issue-key all
\* have the same index modulo the worker count (so for every list without
\* repeated issue-keys), no issue-key is fetched or recorded by two workers.
C6_NoSharedIssueKeyInOneClass == KeysInOneClass => NoSharedIssueKey

\* two workers have each recorded pages, and an issue-key is listed twice
C6_Witness ==
    /\ KeysInOneClass
    /\ \E i, j \in 1..Len(issues) : i # j /\ issues[i] = issues[j]
    /\ \A w \in Workers : ProgressPairs(Checkpoint(w).data) # {}

(* C7 *)

\* C7: a step of worker i leaves the position, the locals, the checkpoint file
\* and the output file of every other worker as they were, and no file has
\* ever been written by two workers.
C7_Frame ==
    /\ [](\A f \in FileNames : Cardinality(writers[f]) <= 1)
    /\ [][\A i \in Workers :
            wk[i]' # wk[i] =>
                \A j \in Workers \ {i} :
                    /\ wk[j]' = wk[j]
                    /\ hist[j]' = hist[j]
                    /\ fs[get_issue_progress_file(j)]' = fs[get_issue_progress_file(j)]
                    /\ fs[output_file(j)]' = fs[output_file(j)]]_vars

\* every worker has written its checkpoint and its output file while another
\* worker is in the middle of an issue
C7_Witness ==
    /\ \A w \in Workers :
          writers[get_issue_progress_file(w)] = {w} /\ writers[output_file(w)] = {w}
    /\ \E w \in Workers : wk[w].pc = "fetch"

(* C8 *)

\* C8: after a crash at any point the checkpoint can be loaded, holds every
\* page a completed save_progress had written, and misses at most one page
\* that has a row in the output file.
C8_CrashLosesAtMostOnePage ==
    \A w \in Workers :
        wk[w].pc = "crashed" =>
            /\ load_progress(w).loaded
            /\ ProgressPairs(persisted[w]) \subseteq ProgressPairs(load_progress(w).progress)
            /\ Cardinality(OutputPairs(w) \ ProgressPairs(load_progress(w).progress)) <= 1

---------------------------------------------------------------------------
(* C5 *)

\* C5: once every worker id 1..N has computed its partition, every row of the
\* issue list is in the partition of exactly one worker id.
C5_PartitionCover ==
    DOMAIN part.df = 1..part.total =>
        \A i \in 0..(part.rows - 1) :
            Cardinality({ w \in 1..part.total : i \in part.df[w] }) = 1

\* all of three or more workers have their partitions of a list longer than
\* the worker count
C5_Witness ==
    /\ part.total >= 3
    /\ part.rows > part.total
    /\ DOMAIN part.df = 1..part.total

(* C9 *)

\* C9: run_all_workers starts one process for each worker id 1..N, in this
\* order and none twice, all with the total count N, never more than N, and
\* it returns only when all N have been started and every one has exited.
C9_SpawnAllAndWait ==
    /\ Len(orch.processes) <= TotalWorkersArg
    /\ \A k \in 1..Len(orch.processes) :
          /\ orch.processes[k].worker_id = k
          /\ orch.processes[k].total_workers = TotalWorkersArg
    /\ orch.pc = "returned" =>
          /\ Len(orch.processes) = TotalWorkersArg
          /\ \A k \in 1..Len(orch.processes) : orch.processes[k].state = "exited"

\* run_all_workers has returned
C9_Witness == orch.pc = "returned" /\ orch.processes # <<>>

(* C10 *)

\* the issue-keys of the rows of a file
FileKeys(f) == { IssueKey(f[i].aid, RowDate(f[i])) : i \in 1..Len(f) }

DisjointFiles ==
    \A f, g \in 1..Len(mg.files) : f # g => FileKeys(mg.files[f]) \cap FileKeys(mg.files[g]) = {}

\* how often row r occurs in a sequence of rows
Occurrences(rows, r) == Cardinality({ i \in 1..Len(rows) : rows[i] = r })

RECURSIVE Sum(_, _)
Sum(f, S) == IF S = {} THEN 0 ELSE LET x == CHOOSE y \in S : TRUE IN f[x] + Sum(f, S \ {x})

\* (aid, year, month, day, page) of a is not after that of b
RowLeq(a, b) ==
    \/ AidRank(a.aid) < AidRank(b.aid)
    \/ /\ a.aid = b.aid
       /\ \/ a.year < b.year
          \/ /\ a.year = b.year
             /\ \/ a.month < b.month
                \/ /\ a.month = b.month
                   /\ \/ a.day < b.day
                      \/ (a.day = b.day /\ a.page <= b.page)

\* C10: the master file of worker files with disjoint issue-keys holds every
\* row as often as the worker files together hold it, and its rows are in
\* ascending order of (aid, year, month, day, page).
C10_MergeUnionSorted ==
    (mg.pc = "done" /\ DisjointFiles) =>
        /\ \A r \in MergeRows :
              Occurrences(mg.master, r) =
                  Sum([f \in 1..Len(mg.files) |-> Occurrences(mg.files[f], r)],
                      1..Len(mg.files))
        /\ \A i \in 1..(Len(mg.master) - 1) : RowLeq(mg.master[i], mg.master[i + 1])

\* two worker files of different issues were merged, one with its pages out
\* of order
C10_Witness ==
    /\ mg.pc = "done"
    /\ DisjointFiles
    /\ \A f \in 1..Len(mg.files) : mg.files[f] # <<>>
    /\ \E f \in 1..Len(mg.files) :
          Len(mg.files[f]) >= 2 /\ ~RowLeq(mg.files[f][1], mg.files[f][2])

---------------------------------------------------------------------------
(* C11 *)

\* worker w is between its to_csv and the end of save_progress
InSaveWindow(w) == wk[w].pc \in SeqToSet(Tail(ContentSteps))

\* C11: for a worker that was never killed between the append of a row and
\* the end of the checkpoint save, and is not between the two right now, the
\* (issue-key, page) pairs of the rows of its output file are the
\* (issue-key, page) pairs of its checkpoint file.
C11_RoundTrip ==
    \A w \in Workers :
        (w \notin torn /\ ~InSaveWindow(w)) =>
            OutputPairs(w) = ProgressPairs(Checkpoint(w).data)

\* a worker that was killed outside the window and restarted holds two pages
\* in both files
C11_Witness ==
    /\ crashes >= 1
    /\ torn = {}
    /\ \E w \in Workers :
          /\ wk[w].pc = "fetch"
          /\ Cardinality(OutputPairs(w)) >= 2
          /\ OutputPairs(w) = ProgressPairs(Checkpoint(w).data)

---------------------------------------------------------------------------
(* C12 *)

\* The class of a result of scrape_page: the pair (text, err) it returns, or
\* the exception it lets through
CodeClass(res) ==
    IF res.raised = "PermissionError" THEN [class |-> "access-denied", text |-> None]
    ELSE IF res.raised # NoExc THEN [class |-> "propagated", text |-> None]
    ELSE IF res.err = "server_error_500" THEN [class |-> "terminal-server-error", text |-> None]
    ELSE IF res.err = "error" THEN [class |-> "transient-error", text |-> None]
    ELSE IF res.err = "invalid_index" THEN [class |-> "terminal-malformed", text |-> None]
    ELSE IF res.err = "no_content" THEN [class |-> "terminal-empty", text |-> None]
    ELSE [class |-> "content", text |-> res.text]

\* The class the classification policy gives an answer, first rule first
PolicyClass(r) ==
    IF r.raises THEN [class |-> "transient-error", text |-> None]
    ELSE IF r.status = 403 THEN [class |-> "access-denied", text |-> None]
    ELSE IF r.status = 500 THEN [class |-> "terminal-server-error", text |-> None]
    ELSE IF r.status < 200 \/ r.status >= 300 THEN [class |-> "transient-error", text |-> None]
    ELSE IF r.prefix = "placeholder" /\ Strip(r.rest) = "" THEN [class |-> "terminal-malformed", text |-> None]
    ELSE IF Strip(r.rest) = "" THEN [class |-> "terminal-empty", text |-> None]
    ELSE [class |-> "content", text |-> Strip(r.rest)]

\* C12: scrape_page gives every answer the class of the first rule of the
\* policy that applies: 403 access-denied, 500 terminal-server-error, another
\* non-2xx status transient-error, the bare placeholder terminal-malformed
\* without content, an empty trimmed text terminal-empty, any other text
\* content; an exception of the request transient-error.
C12_Classification ==
    ft.pc = "done" => CodeClass(ft.result) = PolicyClass(ft.resp)

\* the policy without its first rule: what scrape_page does for every answer
\* but a 403
C12_ClassificationBut403 ==
    (ft.pc = "done" /\ ~(~ft.resp.raises /\ ft.resp.status = 403)) =>
        CodeClass(ft.result) = PolicyClass(ft.resp)

\* a 403 comes back as a transient error
C12_403IsTransient ==
    (ft.pc = "done" /\ ~ft.resp.raises /\ ft.resp.status = 403) =>
        CodeClass(ft.result) = [class |-> "transient-error", text |-> None]

---------------------------------------------------------------------------
(* C13 *)

\* the current run of scrape_issue of worker w got an answer that is not a
\* page text (terminal-empty, terminal-malformed, terminal-server-error or
\* transient-error)
FailedFetch(w) == \E i \in 1..Len(hist[w].reqs) : ~hist[w].reqs[i].ok

\* the page numbers, as the progress record holds them, of the pages this
\* run of scrape_issue has put into results
ResultPages(w) == [i \in 1..Len(wk[w].results) |-> Str(wk[w].results[i])]

\* C13: once a fetch of a run of scrape_issue is classified terminal-empty,
\* terminal-malformed, terminal-server-error or transient-error, that request
\* is the last of the run and the run is at its return; the run has appended
\* a row for each of its result pages and none for the failed page, which has
\* no entry in the progress record, in memory and in the checkpoint; the pages recorded before it, at entry and in this run, are
\* the issue's page list.
C13_FailureEndsScan ==
    \A w \in Workers :
        FailedFetch(w) =>
            LET reqs == hist[w].reqs
                n == Len(reqs)
            IN  /\ \A i \in 1..(n - 1) : reqs[i].ok
                /\ wk[w].pc = "ret"
                /\ Len(OutputRows(w)) = hist[w].rows + Len(wk[w].results)
                /\ DictGet(wk[w].progress, Key(w)) = hist[w].entry \o ResultPages(w)
                /\ Str(reqs[n].page) \notin SeqToSet(DictGet(wk[w].progress, Key(w)))
                /\ Checkpoint(w).data = wk[w].progress

\* page 1 gave a text, page 2 did not
C13_Witness ==
    \E w \in Workers :
        /\ FailedFetch(w)
        /\ Len(hist[w].reqs) = 2
        /\ hist[w].reqs[1].ok
        /\ hist[w].reqs[2].page = 2
        /\ wk[w].results = <<1>>

---------------------------------------------------------------------------
(* C14 *)

\* worker w has not yet reached position i of its partition
Ahead(w, i) ==
    /\ wk[w].pc \in Running
    /\ i <= Len(wk[w].df)
    /\ wk[w].pos < i \/ (wk[w].pos = i /\ wk[w].pc = "loop")

\* worker w enters scrape_issue for position i of its partition
Visits(w, i) == wk[w].pc = "page" /\ wk[w].pos = i /\ wk[w].page_index = 1

\* after a failed fetch run_worker is alive at the return of scrape_issue and
\* its next step is the next row of its partition, unless the process is
\* killed
FailureLeavesWorkerRunning ==
    /\ [](\A w \in Workers : FailedFetch(w) => wk[w].pc = "ret")
    /\ [][\A w \in Workers :
            (FailedFetch(w) /\ wk'[w] # wk[w]) =>
                \/ wk'[w].pc = "crashed"
                \/ /\ wk'[w].pc = "loop"
                   /\ wk'[w].pos = wk[w].pos + 1
                   /\ wk'[w].df = wk[w].df]_vars

\* C14: a fetch that is terminal-empty, terminal-malformed,
\* terminal-server-error or transient-error leaves run_worker alive at the
\* return of scrape_issue, its next step is the next row of its partition,
\* and a running worker enters scrape_issue for every issue of its partition
\* still ahead of it.
C14_Contained ==
    /\ FailureLeavesWorkerRunning
    /\ \A w \in Workers : \A i \in 1..MaxIssues :
          Ahead(w, i) ~> (wk[w].pc = "crashed" \/ Visits(w, i))

\* the first issue of a worker's partition failed at its first page and the
\* worker, never killed, enters scrape_issue for its second issue
C14_Witness ==
    /\ crashes = 0
    /\ \E w \in Workers :
          /\ Visits(w, 2)
          /\ OutputRows(w) = <<>>

---------------------------------------------------------------------------
(* C15 *)

\* C15: the page requests of one run of scrape_issue are in strictly
\* increasing page order from page 1 on; no requested page is in the issue's
\* page list at the entry of the run; every page below a requested page is in
\* that list or was requested earlier in the run and gave a text.
C15_InOrder ==
    \A w \in Workers :
        LET reqs == hist[w].reqs
            entry == SeqToSet(hist[w].entry)
        IN  /\ \A i \in 1..Len(reqs) : reqs[i].page >= 1
            /\ \A i \in 1..Len(reqs) : \A j \in 1..Len(reqs) :
                  i < j => reqs[i].page < reqs[j].page
            /\ \A i \in 1..Len(reqs) : Str(reqs[i].page) \notin entry
            /\ \A i \in 1..Len(reqs) : \A p \in 1..(reqs[i].page - 1) :
                  \/ Str(p) \in entry
                  \/ \E j \in 1..(i - 1) : reqs[j].page = p /\ reqs[j].ok

\* a run that found page 1 in the progress record has requested pages 2 and 3
C15_Witness ==
    \E w \in Workers :
        /\ hist[w].entry = <<Str(1)>>
        /\ Len(hist[w].reqs) = 2
        /\ hist[w].reqs[1].page = 2
        /\ hist[w].reqs[2].page = 3

---------------------------------------------------------------------------
(* C16 *)

\* C16: a run of scrape_issue makes at most 100 page requests, none for a
\* page above 100, and reaches its return whatever scrape_page gives; a
\* started run_worker reaches its end.
C16_Terminates ==
    /\ [](\A w \in Workers :
            /\ Len(hist[w].reqs) <= 100
            /\ \A i \in 1..Len(hist[w].reqs) : hist[w].reqs[i].page <= 100
            /\ wk[w].page_index <= 100 + 1)
    /\ \A w \in Workers : (wk[w].pc = "page") ~> (wk[w].pc = "ret")
    /\ \A w \in Workers : (wk[w].pc = "loop") ~> (wk[w].pc = "finished")

\* a run of scrape_issue ended by the page cap: 100 requests, all with text
C16_Witness ==
    \E w \in Workers :
        /\ wk[w].pc = "ret"
        /\ Len(hist[w].reqs) = 100
        /\ \A i \in 1..Len(hist[w].reqs) : hist[w].reqs[i].ok
        /\ Len(OutputRows(w)) = 100

\* run_all_workers returns when each of its processes ends
OrchestratorReturns == <>(orch.pc = "returned")

---------------------------------------------------------------------------
(* C17 *)

\* every page list of the progress mapping d is "1", "2", ..., "k" with
\* 1 <= k <= 100
PrefixLists(d) ==
    \A key \in DOMAIN d :
        /\ Len(d[key]) >= 1
        /\ Len(d[key]) <= 100
        /\ \A i \in 1..Len(d[key]) : d[key][i] = Str(i)

=============================================================================
